---- MODULE Spec2Model ----
(***************************************************************************)
(* A model of seam_carving/carve.py: the seam searches, the batch seam     *)
(* extraction, seam removal and insertion, and the resize /                *)
(* resize_advanced orchestration.                                          *)
(*                                                                         *)
(* Buffers are records [h, w, d] with d[r][c], r in 0..h-1, c in 0..w-1    *)
(* (the source's 0-based indices).  Pixel samples, energies and biases are *)
(* integers: every value the bounded model produces is an integer below    *)
(* 2^24, which float32 represents exactly.  An optional argument is <<>>   *)
(* (None) or <<x>>.                                                        *)
(***************************************************************************)
EXTENDS Integers, Sequences, FiniteSets, TLC

(* ---------------------------- bounds ---------------------------------- *)
\* largest height and width of a caller's image
MaxH == 2
MaxW == 2
\* largest target width / height a caller asks for
MaxSize == 3
\* at most this many pixels of the caller's image are bright (255), the rest 0
MaxBright == 1
\* at most this many pixels of a mask are marked
MaxMarked == 2
MaxWide == 3

(* ---------------------- program constants ----------------------------- *)
DROP_MASK_ENERGY == 100000
KEEP_MASK_ENERGY == 1000
\* np.inf: larger than every finite cost of the model; absorbing under Plus
Inf == 1000000000

(* ------------------------- small helpers ------------------------------ *)
None == <<>>
Some(x) == <<x>>
Get(o) == o[1]

Abs(x) == IF x < 0 THEN -x ELSE x
Max(a, b) == IF a >= b THEN a ELSE b
Min(a, b) == IF a <= b THEN a ELSE b
Plus(a, b) == IF a >= Inf \/ b >= Inf THEN Inf ELSE a + b

\* With([x \in {v} |-> e]) is e with x the value of v, a local variable:
\* v is evaluated once, however often e reads x
With(f) == CHOOSE y \in UNION {{g[x] : x \in DOMAIN g} : g \in {f}} : TRUE

\* an h x w buffer: d[r][c] for r in Ix(h), c in Ix(w)
Ix(n) == 0..(n - 1)
Mat(h, w, d) == [h |-> h, w |-> w, d |-> d]

MinOf(S) == CHOOSE x \in S : \A y \in S : x <= y
MaxOf(S) == CHOOSE x \in S : \A y \in S : x >= y

\* np.argmin of a row: the first index of the smallest value
ArgMin_Max(f, w) ==
    CHOOSE c \in 0..(w - 1) : \A x \in 0..(w - 1) : f[c] >= f[x]

ArgMin(f, w) ==
    CHOOSE c \in 0..(w - 1) :
        /\ \A x \in 0..(w - 1) : f[c] <= f[x]
        /\ \A x \in 0..(c - 1) : f[x] > f[c]

\* a choice of the left parent whatever the costs
ArgMin3_Left(a, b, c) == 0

\* a parent choice that goes right between equal costs
ArgMin3_Right(a, b, c) == IF c <= a /\ c <= b THEN 2 ELSE IF b <= a THEN 1 ELSE 0

\* np.argmin over three stacked rows, for one column
ArgMin3(a, b, c) == IF a <= b /\ a <= c THEN 0 ELSE IF b <= c THEN 1 ELSE 2

\* the j-th (0-based) index c of 0..w-1 with keep[c]
Kth(keep, w, j) ==
    CHOOSE c \in 0..(w - 1) :
        keep[c] /\ Cardinality({x \in 0..(c - 1) : keep[x]}) = j

Count(keep, w) == Cardinality({c \in 0..(w - 1) : keep[c]})

\* a compaction that drops nothing
Compact_KeepsAll(buf, to_keep, n) == buf

\* buf[to_keep].reshape((h, n)): every row keeps its to_keep samples in order
Compact(buf, to_keep, n) ==
    Mat(buf.h, n, [r \in Ix(buf.h) |-> [c \in Ix(n) |-> buf.d[r][Kth(to_keep.d[r], buf.w, c)]]])

Not(mask) == Mat(mask.h, mask.w, [r \in Ix(mask.h) |-> [c \in Ix(mask.w) |-> ~mask.d[r][c]]])

\* buf[:, lo:hi] with numpy's clamping of the slice bounds
Cols(buf, lo, hi) ==
    LET a == Min(Max(lo, 0), buf.w)
        b == Min(Max(hi, a), buf.w)
    IN  Mat(buf.h, b - a, [r \in Ix(buf.h) |-> [c \in Ix(b - a) |-> buf.d[r][a + c]]])

\* np.hstack of three buffers of equal height
HStack3(x, y, z) ==
    Mat(x.h, x.w + y.w + z.w,
        [r \in Ix(x.h) |-> [c \in Ix(x.w + y.w + z.w) |-> IF c < x.w THEN x.d[r][c]
                      ELSE IF c < x.w + y.w THEN y.d[r][c - x.w]
                      ELSE z.d[r][c - x.w - y.w]]])

MatAdd(x, y) == Mat(x.h, x.w, [r \in Ix(x.h) |-> [c \in Ix(x.w) |-> x.d[r][c] + y.d[r][c]]])

(* ------------------------- carve.py:33-58 ----------------------------- *)
_get_seam_mask(src, seam) ==
    Mat(src.h, src.w, [r \in Ix(src.h) |-> [c \in Ix(src.w) |-> seam[r] = c]])

_remove_seam_mask(src, seam_mask) == Compact(src, Not(seam_mask), src.w - 1)

\* scipy.ndimage's "reflect" border for a 3-tap filter
Refl(i, n) == IF i < 0 THEN 0 ELSE IF i > n - 1 THEN n - 1 ELSE i

\* |sobel(axis=1)| + |sobel(axis=0)|: the derivative [-1, 0, 1] along the axis
\* and the smoothing [1, 2, 1] along the other one.  Of a buffer without
\* columns the filter returns a buffer without columns.
_get_energy(gray) ==
    LET h == gray.h
        w == gray.w
        g(r, c) == gray.d[Refl(r, h)][Refl(c, w)]
        dx(r, c) == g(r, c + 1) - g(r, c - 1)
        dy(r, c) == g(r + 1, c) - g(r - 1, c)
        grad_x(r, c) == dx(r - 1, c) + 2 * dx(r, c) + dx(r + 1, c)
        grad_y(r, c) == dy(r, c - 1) + 2 * dy(r, c) + dy(r, c + 1)
    IN  Mat(h, w, [r \in Ix(h) |-> [c \in Ix(w) |-> Abs(grad_x(r, c)) + Abs(grad_y(r, c))]])

(* ------------------------- carve.py:61-82 ----------------------------- *)
\* np.arange(-1, w - 1), at column c
base_idx(c) == c - 1

\* a negative index counts from the end of the row
Wrap(c, w) == IF c < 0 THEN c + w ELSE c

\* rows 0..r of the dynamic program: the running cost and parent[1..r]
RECURSIVE BackwardDP(_, _)
BackwardDP(energy, r) ==
    IF r = 0 THEN [cost |-> energy.d[0], parent |-> <<>>]
    ELSE With([p \in {BackwardDP(energy, r - 1)} |->
         LET w == energy.w
             cost(c) == IF c < 0 \/ c > w - 1 THEN Inf ELSE p.cost[c]
             min_idx(c) == ArgMin3(cost(c - 1), cost(c), cost(c + 1)) + base_idx(c)
         IN  [cost |-> [c \in 0..(w - 1) |-> Plus(cost(min_idx(c)), energy.d[r][c])],
              parent |-> Append(p.parent, [c \in 0..(w - 1) |-> min_idx(c)])]])

\* the backtracking loop: seam[0..r], given that row r is at column c
RECURSIVE Backtrack(_, _, _, _)
Backtrack(parent, r, c, w) ==
    IF r = 0 THEN (0 :> c)
    ELSE With([up \in {parent[r][Wrap(c, w)]} |-> Backtrack(parent, r - 1, up, w)])
         @@ (r :> c)

_get_backward_seam(energy) ==
    With([dp \in {BackwardDP(energy, energy.h - 1)} |->
    With([c \in {ArgMin(dp.cost, energy.w)} |->
         Backtrack(dp.parent, energy.h - 1, c, energy.w)])])

(* ------------------------ carve.py:129-173 ---------------------------- *)
\* gray padded by its first and last column: column c of the padded row is
\* column c-1 of gray
Padded(gray, r, c) == gray.d[r][Refl(c - 1, gray.w)]

RECURSIVE ForwardDP(_, _, _)
ForwardDP(gray, aux_energy, r) ==
    IF r = 0
    THEN [dp |-> [c \in 0..(gray.w - 1) |->
                     Abs(Padded(gray, 0, c + 2) - Padded(gray, 0, c))],
          parent |-> <<>>]
    ELSE With([p \in {ForwardDP(gray, aux_energy, r - 1)} |->
         LET w == gray.w
             dp(c) == IF c < 0 \/ c > w - 1 THEN Inf ELSE p.dp[c]
             curr_shl(c) == Padded(gray, r, c + 2)
             curr_shr(c) == Padded(gray, r, c)
             prev_mid(c) == gray.d[r - 1][c]
             cost_mid(c) == Abs(curr_shl(c) - curr_shr(c))
                            + (IF aux_energy = None THEN 0 ELSE Get(aux_energy).d[r][c])
             cost_left(c) == cost_mid(c) + Abs(prev_mid(c) - curr_shr(c))
             cost_right(c) == cost_mid(c) + Abs(prev_mid(c) - curr_shl(c))
             choices(c) == << Plus(cost_left(c), dp(c - 1)),
                              Plus(cost_mid(c), dp(c)),
                              Plus(cost_right(c), dp(c + 1)) >>
             min_idx(c) == With([ch \in {choices(c)} |-> ArgMin3(ch[1], ch[2], ch[3])])
         IN  [dp |-> [c \in 0..(w - 1) |-> choices(c)[min_idx(c) + 1]],
              parent |-> Append(p.parent, [c \in 0..(w - 1) |-> min_idx(c) + base_idx(c)])]])

_get_forward_seam(gray, aux_energy) ==
    With([f \in {ForwardDP(gray, aux_energy, gray.h - 1)} |->
    With([c \in {ArgMin(f.dp, gray.w)} |->
         Backtrack(f.parent, gray.h - 1, c, gray.w)])])

(* ------------------------ carve.py:85-119 ----------------------------- *)
SeamCols(seam) == {seam[r] : r \in DOMAIN seam}

\* seams[rows, idx_map[rows, seam]] = True
MarkSeam(seams, idx_map, seam) ==
    Mat(seams.h, seams.w,
        [r \in Ix(seams.h) |-> [c \in Ix(seams.w) |->
            seams.d[r][c] \/ c = idx_map.d[r][seam[r]]]])

OptRemove(aux_energy, seam_mask) ==
    IF aux_energy = None THEN None
    ELSE Some(_remove_seam_mask(Get(aux_energy), seam_mask))

\* an update that recomputes nothing: the old energy without the seam
Window_Stale(energy, gray, aux_energy, seam) ==
    _remove_seam_mask(energy, _get_seam_mask(energy, seam))

\* the window of lines 106-117: the energy of the carved gray, recomputed
\* around the seam and kept left and right of it
Window(energy, gray, aux_energy, seam) ==
    LET cur_w == energy.w
        lo == Max(0, MinOf(SeamCols(seam)) - 1)
        hi == Min(cur_w, MaxOf(SeamCols(seam)) + 1)
        pad_lo == IF lo > 0 THEN 1 ELSE 0
        pad_hi == IF hi < cur_w - 1 THEN 1 ELSE 0
    IN  With([mid_block \in {Cols(gray, lo - pad_lo, hi + pad_hi)} |->
        With([gradient \in {_get_energy(mid_block)} |->
        With([mid_gradient \in {Cols(gradient, pad_lo, mid_block.w - pad_hi)} |->
             HStack3(Cols(energy, 0, lo),
                     IF aux_energy = None THEN mid_gradient
                     ELSE MatAdd(mid_gradient, Cols(Get(aux_energy), lo, hi)),
                     Cols(energy, hi + 1, cur_w))])])])

\* one pass of the loop of lines 96-117; s = [gray, idx_map, aux_energy, energy, seams]
BackwardStep(s) ==
    With([seam \in {_get_backward_seam(s.energy)} |->
    With([seam_mask \in {_get_seam_mask(s.gray, seam)} |->
    With([gray \in {_remove_seam_mask(s.gray, seam_mask)} |->
    With([aux_energy \in {OptRemove(s.aux_energy, seam_mask)} |->
         [gray |-> gray,
          idx_map |-> _remove_seam_mask(s.idx_map, seam_mask),
          aux_energy |-> aux_energy,
          energy |-> Window(s.energy, gray, aux_energy, seam),
          seams |-> MarkSeam(s.seams, s.idx_map, seam)]])])])])

RECURSIVE BackwardLoop(_, _)
BackwardLoop(s, n) ==
    IF n = 0 THEN s ELSE With([t \in {BackwardStep(s)} |-> BackwardLoop(t, n - 1)])

IdxMap(h, w) == Mat(h, w, [r \in Ix(h) |-> [c \in Ix(w) |-> c]])
NoSeams(h, w) == Mat(h, w, [r \in Ix(h) |-> [c \in Ix(w) |-> FALSE]])

\* lines 90-95: what the loop starts from
BackwardStart(gray, aux_energy) ==
    With([energy \in {IF aux_energy = None THEN _get_energy(gray)
         ELSE MatAdd(_get_energy(gray), Get(aux_energy))} |->
         [gray |-> gray, idx_map |-> IdxMap(gray.h, gray.w),
          aux_energy |-> aux_energy, energy |-> energy,
          seams |-> NoSeams(gray.h, gray.w)]])

_get_backward_seams(gray, num_seams, aux_energy) ==
    With([s \in {BackwardStart(gray, aux_energy)} |-> BackwardLoop(s, num_seams).seams])

(* ------------------------ carve.py:176-193 ---------------------------- *)
ForwardStep(s) ==
    With([seam \in {_get_forward_seam(s.gray, s.aux_energy)} |->
    With([seam_mask \in {_get_seam_mask(s.gray, seam)} |->
         [gray |-> _remove_seam_mask(s.gray, seam_mask),
          idx_map |-> _remove_seam_mask(s.idx_map, seam_mask),
          aux_energy |-> OptRemove(s.aux_energy, seam_mask),
          seams |-> MarkSeam(s.seams, s.idx_map, seam)]])])

RECURSIVE ForwardLoop(_, _)
ForwardLoop(s, n) ==
    IF n = 0 THEN s ELSE With([t \in {ForwardStep(s)} |-> ForwardLoop(t, n - 1)])

_get_forward_seams(gray, num_seams, aux_energy) ==
    With([s \in {[gray |-> gray, idx_map |-> IdxMap(gray.h, gray.w),
          aux_energy |-> aux_energy,
          seams |-> NoSeams(gray.h, gray.w)]} |->
         ForwardLoop(s, num_seams).seams])

(* ------------------------ carve.py:524-536 ---------------------------- *)
StaticStep(s) ==
    With([seam \in {_get_backward_seam(s.energy)} |->
    With([seam_mask \in {_get_seam_mask(s.energy, seam)} |->
         [energy |-> _remove_seam_mask(s.energy, seam_mask),
          idx_map |-> _remove_seam_mask(s.idx_map, seam_mask),
          seams |-> MarkSeam(s.seams, s.idx_map, seam)]])])

RECURSIVE StaticLoop(_, _)
StaticLoop(s, n) ==
    IF n = 0 THEN s ELSE With([t \in {StaticStep(s)} |-> StaticLoop(t, n - 1)])

_get_backward_seams_static(energy, num_seams) ==
    With([s \in {[energy |-> energy, idx_map |-> IdxMap(energy.h, energy.w),
          seams |-> NoSeams(energy.h, energy.w)]} |->
         StaticLoop(s, num_seams).seams])

(* ------------------------ carve.py:196-220 ---------------------------- *)
\* [err, seams]: err is "" or the exception raised.  A seam search on a buffer
\* without columns takes the argmin of an empty row, which raises.
_get_seams(gray, num_seams, energy_mode, aux_energy, energy_map, recompute_energy) ==
    LET user == energy_map # None
        recompute == IF user THEN FALSE ELSE recompute_energy
        aux == IF user THEN None ELSE aux_energy
        static == energy_mode = "backward" /\ ~recompute
        searched == IF static /\ user THEN Get(energy_map) ELSE gray
    IN  IF energy_mode = "forward" /\ ~recompute
        THEN [err |-> "ValueError: forward", seams |-> NoSeams(0, 0)]
        ELSE IF num_seams > searched.w \/ (num_seams > 0 /\ searched.h = 0)
        THEN [err |-> "ValueError: argmin", seams |-> NoSeams(0, 0)]
        ELSE IF static
        THEN With([energy \in {IF user THEN Get(energy_map)
                  ELSE IF aux_energy = None THEN _get_energy(gray)
                  ELSE MatAdd(_get_energy(gray), Get(aux_energy))} |->
                  [err |-> "", seams |-> _get_backward_seams_static(energy, num_seams)]])
        ELSE IF energy_mode = "backward"
        THEN [err |-> "", seams |-> _get_backward_seams(gray, num_seams, aux)]
        ELSE [err |-> "", seams |-> _get_forward_seams(gray, num_seams, aux)]

(* ------------------------ carve.py:251-281 ---------------------------- *)
\* one row of the kernel: the order in which the destination row is written,
\* as <<new, src_col>> (new: the sample synthesized before column src_col)
RECURSIVE InsertOrder(_, _, _)
InsertOrder(marks, src_col, src_w) ==
    IF src_col >= src_w THEN <<>>
    ELSE (IF marks[src_col] THEN << <<TRUE, src_col>> >> ELSE <<>>)
         \o << <<FALSE, src_col>> >>
         \o InsertOrder(marks, src_col + 1, src_w)

InsertPlan(seams, src_w) ==
    [r \in Ix(seams.h) |-> InsertOrder(seams.d[r], 0, src_w)]

\* the kernel, with (left + right) / 2 cast back to the buffer's sample type
_insert_seams(src, seams, delta_width) ==
    With([plan \in {InsertPlan(seams, src.w)} |->
         Mat(src.h, src.w + delta_width,
             [r \in Ix(src.h) |-> [c \in Ix(src.w + delta_width) |->
                 LET new == plan[r][c + 1][1]
                     src_col == plan[r][c + 1][2]
                     right == src.d[r][src_col]
                     left == src.d[r][Max(src_col - 1, 0)]
                 IN  IF new THEN (left + right) \div 2 ELSE right]])])

(* ----------------------------- state -------------------------------- *)
VARIABLES
    api,               \* "resize", "resize_advanced", or "seam" (one seam search)
    channels,          \* 0: a 2-D image; n > 0: a 3-D image with n channels
    image,             \* the caller's image, by its luminance
    size,              \* None or Some(<<width, height>>)
    energy_mode,       \* "backward" or "forward"
    order,             \* "width-first" or "height-first"
    keep_mask,         \* the caller's keep mask, None or Some(mask)
    drop_mask,         \* the caller's drop mask, None or Some(mask)
    step_ratio,        \* <<num, den>>: the ratio num / den
    recompute_energy,  \* resize_advanced only
    energy_threshold,  \* resize_advanced only: None or Some(thr)
    caller_energy_map, \* the caller's energy-map buffer, None or Some(buffer)
    before,            \* the caller's buffers as they were when the call began
    pc,                \* where the call is
    src,               \* the working image (transposed inside a height step)
    origin,            \* for each pixel of src the <<row, col>> of the caller's
                       \* pixel it is, or <<-1, -1>> for a synthesized pixel
    aux_energy,        \* None or Some(buffer)
    energy_map,        \* resize_advanced's energy_map: None or Some(buffer)
    local_energy_map,  \* _expand_width's energy_map
    num_seams,         \* the drop-mask loop's num_seams
    delta_width,       \* _expand_width's delta_width
    stage,             \* 1: the first axis of the order, 2: the second
    result,            \* "": running; "ok"; or the exception raised
    work,              \* the kinds of pixel processing done so far
    last,              \* the last batch extraction requested of _get_seams
    touched,           \* seams removed or inserted so far
    probe              \* one seam search: its input and its seam

args == << api, channels, image, size, energy_mode, order, keep_mask, drop_mask,
           step_ratio, recompute_energy, energy_threshold, before >>
locals == << src, origin, aux_energy, energy_map, local_energy_map, num_seams,
             delta_width, stage, work, last, touched >>
vars == << args, caller_energy_map, pc, locals, result, probe >>

OrderMode == {"width-first", "height-first"}
EnergyMode == {"forward", "backward"}

Transpose(m) == Mat(m.w, m.h, [r \in Ix(m.w) |-> [c \in Ix(m.h) |-> m.d[c][r]]])
OptTranspose(o) == IF o = None THEN None ELSE Some(Transpose(Get(o)))
SameShape(x, y) == x.h = y.h /\ x.w = y.w
Origin(h, w) == Mat(h, w, [r \in Ix(h) |-> [c \in Ix(w) |-> <<r, c>>]])
Synthesized == <<-1, -1>>
\* where the pixels of an expanded buffer come from
InsertOrigin(org, seams, n) ==
    With([plan \in {InsertPlan(seams, org.w)} |->
         Mat(org.h, org.w + n,
             [r \in Ix(org.h) |-> [c \in Ix(org.w + n) |->
                 IF plan[r][c + 1][1] THEN Synthesized ELSE org.d[r][plan[r][c + 1][2]]]])])

\* _rgb2gray multiplies the last axis by three coefficients: a 3-D image
\* needs exactly three channels (carve.py:27-30)
_rgb2gray_err == IF channels \in {0, 3} THEN "" ELSE "ValueError: matmul"

\* Python's round() of the ratio num / den: to the nearest, ties to even
Round(num, den) ==
    LET q == num \div den
        rem == num % den
    IN  IF 2 * rem < den THEN q
        ELSE IF 2 * rem > den THEN q + 1
        ELSE IF q % 2 = 0 THEN q ELSE q + 1

\* (aux_energy < 0).sum(1).max()
MaxNegative_Min(aux) ==
    MinOf({Count([c \in 0..(aux.w - 1) |-> aux.d[r][c] < 0], aux.w) : r \in 0..(aux.h - 1)})

MaxNegative(aux) ==
    MaxOf({Count([c \in 0..(aux.w - 1) |-> aux.d[r][c] < 0], aux.w) : r \in 0..(aux.h - 1)})

(* ------------------------ carve.py:223-248 ---------------------------- *)
Raise(e) == [err |-> e]

\* energy_map[:] = value: numpy broadcasts a one-column value over the buffer
\* and refuses every other width but the buffer's own
Broadcast(value, buffer) ==
    Mat(buffer.h, buffer.w,
        [r \in Ix(buffer.h) |-> [c \in Ix(buffer.w) |->
            value.d[r][IF value.w = 1 THEN 0 ELSE c]]])

_reduce_width(src_, delta_width_, energy_mode_, aux_energy_, energy_map_, recompute_energy_) ==
    IF _rgb2gray_err # "" THEN Raise(_rgb2gray_err)
    ELSE With([got \in {_get_seams(src_, delta_width_, energy_mode_, aux_energy_,
                         energy_map_, recompute_energy_)} |->
         IF got.err # "" THEN Raise(got.err)
         ELSE IF ~SameShape(got.seams, src_) THEN Raise("IndexError: boolean index")
         ELSE With([to_keep \in {Not(got.seams)} |->
              LET n == src_.w - delta_width_
              IN  IF energy_map_ # None /\ ~(n = src_.w \/ n = 1)
                  THEN Raise("ValueError: broadcast")
                  ELSE [err |-> "",
                        seams |-> got.seams,
                        dst |-> Compact(src_, to_keep, n),
                        aux_energy |-> IF aux_energy_ = None THEN None
                                       ELSE Some(Compact(Get(aux_energy_), to_keep, n)),
                        energy_map |->
                            IF energy_map_ = None THEN None
                            ELSE Some(Broadcast(Compact(Get(energy_map_), to_keep, n),
                                                Get(energy_map_)))]])])

(* ------------------------ carve.py:284-309 ---------------------------- *)
MaxStep(ratio, w) == Max(1, Round(ratio[1] * w, ratio[2]))

\* one pass of the loop of lines 296-308
ExpandStep(dst, delta_width_, energy_mode_, aux_energy_, step_ratio_, energy_map_, recompute_) ==
    LET step == Min(MaxStep(step_ratio_, dst.w), delta_width_)
    IN  IF _rgb2gray_err # "" THEN Raise(_rgb2gray_err)
        ELSE With([got \in {_get_seams(dst, step, energy_mode_, aux_energy_, energy_map_,
                             recompute_)} |->
             IF got.err # "" THEN Raise(got.err)
             ELSE IF ~SameShape(got.seams, dst) THEN Raise("undefined")
             ELSE [err |-> "",
                   step |-> step,
                   seams |-> got.seams,
                   dst |-> _insert_seams(dst, got.seams, step),
                   aux_energy |-> IF aux_energy_ = None THEN None
                                  ELSE Some(_insert_seams(Get(aux_energy_), got.seams, step)),
                   energy_map |-> IF energy_map_ = None THEN None
                                  ELSE Some(_insert_seams(Get(energy_map_), got.seams, step))]])

(* ------------------------ carve.py:539-545 ---------------------------- *)
\* the rows and columns whose mean energy is at least thr
_prune_low_energy(buf, energy, thr) ==
    LET RowSum(r) == LET S[c \in 0..energy.w] ==
                             IF c = 0 THEN 0 ELSE S[c - 1] + energy.d[r][c - 1]
                     IN  S[energy.w]
        ColSum(c) == LET S[r \in 0..energy.h] ==
                             IF r = 0 THEN 0 ELSE S[r - 1] + energy.d[r - 1][c]
                     IN  S[energy.h]
        keep_rows == [r \in 0..(energy.h - 1) |-> RowSum(r) >= thr * energy.w]
        keep_cols == [c \in 0..(energy.w - 1) |-> ColSum(c) >= thr * energy.h]
        h2 == Count(keep_rows, energy.h)
        w2 == Count(keep_cols, energy.w)
    IN  Mat(h2, w2, [r \in Ix(h2) |-> [c \in Ix(w2) |->
                buf.d[Kth(keep_rows, energy.h, r)][Kth(keep_cols, energy.w, c)]]])

(* --------------------- the call, step by step ------------------------- *)
Advanced == api = "resize_advanced"
\* the energy_map and recompute_energy the step functions are handed:
\* resize passes neither (carve.py:329, 449, 465-477)
PassedMap == IF Advanced THEN energy_map ELSE None
PassedRecompute == IF Advanced THEN recompute_energy ELSE TRUE
Axis == IF (order = "width-first") = (stage = 1) THEN "width" ELSE "height"

Zeros(h, w) == Mat(h, w, [r \in Ix(h) |-> [c \in Ix(w) |-> 0]])
Bias(aux, mask, e) ==
    Mat(aux.h, aux.w, [r \in Ix(aux.h) |-> [c \in Ix(aux.w) |->
                          aux.d[r][c] + (IF mask.d[r][c] THEN e ELSE 0)]])

\* what a step has processed when it ends with err: _get_seams computes the
\* energy (carve.py:211) before it looks at the mode (218-220)
Worked(map, err) ==
    IF _rgb2gray_err # "" THEN {}
    ELSE (IF map = None THEN {"energy"} ELSE {})
         \cup (IF err = "ValueError: forward" THEN {} ELSE {"seam"})

\* a removal of one seam too many
Delta_OneMore(w, target) == Abs(w - target) + 1

\* the number of seams a reduction takes out (carve.py:329, 358, 636, 652)
Delta(w, target) == Abs(w - target)

Finish(e) ==
    /\ pc' = "done"
    /\ result' = e

\* resize_advanced writes through energy_map into the caller's buffer when
\* energy_map still is the caller's array (no pruning made a new one)
Aliased == Advanced /\ energy_threshold = None /\ caller_energy_map # None
WriteMap(m) ==
    /\ energy_map' = m
    /\ caller_energy_map' = IF Aliased THEN m ELSE caller_energy_map

\* what is asked of _get_seams, and the selection mask it answers with
Request(op, buf, aux, map, k, got) ==
    [op |-> op, num_seams |-> k, gray |-> buf, aux_energy |-> aux, energy_map |-> map,
     seams |-> IF got.err = "" THEN got.seams ELSE NoSeams(0, 0)]
NoRequest ==
    [op |-> "none", num_seams |-> 0, gray |-> Zeros(0, 0), aux_energy |-> None,
     energy_map |-> None, seams |-> NoSeams(0, 0)]

\* carve.py:420-433 and 615-626: validation, pruning, the keep mask
Enter ==
    /\ pc = "start"
    /\ api \in {"resize", "resize_advanced"}
    /\ \E emap \in {IF caller_energy_map = None THEN _get_energy(src)
                    ELSE Get(caller_energy_map)} :
       \E src1 \in {IF Advanced /\ energy_threshold # None
                    THEN _prune_low_energy(src, emap, Get(energy_threshold))
                    ELSE src} :
       LET prune == Advanced /\ energy_threshold # None
           keep_ok == keep_mask = None \/ SameShape(Get(keep_mask), src1)
       IN  IF order \notin OrderMode
           THEN Finish("ValueError: order")
                /\ UNCHANGED << args, caller_energy_map, locals, probe >>
           ELSE IF prune /\ _rgb2gray_err # ""
           THEN Finish(_rgb2gray_err)
                /\ UNCHANGED << args, caller_energy_map, locals, probe >>
           ELSE IF ~keep_ok
           THEN Finish("ValueError: mask shape")
                /\ work' = work \cup {"prune"} \cup
                           (IF caller_energy_map = None THEN {"energy"} ELSE {})
                /\ UNCHANGED << args, caller_energy_map, src, origin, aux_energy,
                                energy_map, local_energy_map, num_seams, delta_width,
                                stage, last, touched, probe >>
           ELSE /\ pc' = "drop"
                /\ src' = src1
                /\ origin' = IF prune THEN _prune_low_energy(origin, emap, Get(energy_threshold))
                             ELSE origin
                /\ energy_map' = IF ~Advanced THEN None
                                 ELSE IF prune
                                 THEN Some(_prune_low_energy(emap, emap, Get(energy_threshold)))
                                 ELSE caller_energy_map
                /\ aux_energy' = IF keep_mask = None THEN None
                                 ELSE Some(Bias(Zeros(src1.h, src1.w), Get(keep_mask),
                                                KEEP_MASK_ENERGY))
                /\ work' = IF ~prune THEN work
                           ELSE work \cup {"prune"} \cup
                                (IF caller_energy_map = None THEN {"energy"} ELSE {})
                /\ UNCHANGED << args, caller_energy_map, local_energy_map, num_seams,
                                delta_width, stage, result, last, touched, probe >>

\* carve.py:436-447 and 627-631, 569-572: the drop mask's bias, the first num_seams
DropMask ==
    /\ pc = "drop"
    /\ IF drop_mask = None
       THEN /\ pc' = "size"
            /\ UNCHANGED << args, caller_energy_map, locals, result, probe >>
       ELSE IF ~SameShape(Get(drop_mask), src)
       THEN Finish("ValueError: mask shape")
            /\ UNCHANGED << args, caller_energy_map, locals, probe >>
       ELSE LET zero == IF aux_energy = None THEN Zeros(src.h, src.w) ELSE Get(aux_energy)
                aux == Bias(zero, Get(drop_mask), -DROP_MASK_ENERGY)
                flip == order = "height-first"
                aux1 == IF flip THEN Transpose(aux) ELSE aux
            IN  /\ pc' = "erase"
                /\ src' = IF flip THEN Transpose(src) ELSE src
                /\ origin' = IF flip THEN Transpose(origin) ELSE origin
                /\ aux_energy' = Some(aux1)
                /\ num_seams' = MaxNegative(aux1)
                /\ UNCHANGED << args, caller_energy_map, energy_map, local_energy_map,
                                delta_width, stage, result, work, last, touched, probe >>

\* carve.py:448-450 and 573-575: one round of the removal loop
EraseRound ==
    /\ pc = "erase"
    /\ num_seams > 0
    /\ \E r \in {_reduce_width(src, num_seams, energy_mode, aux_energy, None, TRUE)} :
           /\ last' = Request("erase", src, aux_energy, None, num_seams, r)
           /\ work' = work \cup Worked(None, r.err)
           /\ IF r.err # ""
              THEN Finish(r.err)
                   /\ UNCHANGED << args, caller_energy_map, src, origin, aux_energy,
                                   energy_map, local_energy_map, num_seams, delta_width,
                                   stage, touched, probe >>
              ELSE /\ src' = r.dst
                   /\ origin' = Compact(origin, Not(r.seams), r.dst.w)
                   /\ aux_energy' = r.aux_energy
                   /\ num_seams' = MaxNegative(Get(r.aux_energy))
                   /\ touched' = touched + num_seams
                   /\ UNCHANGED << args, caller_energy_map, pc, energy_map,
                                   local_energy_map, delta_width, stage, result, probe >>

\* carve.py:452-454 and 576-579: the loop is over
EraseDone ==
    /\ pc = "erase"
    /\ num_seams = 0
    /\ pc' = "size"
    /\ LET flip == order = "height-first"
       IN  /\ src' = IF flip THEN Transpose(src) ELSE src
           /\ origin' = IF flip THEN Transpose(origin) ELSE origin
           /\ aux_energy' = IF flip THEN OptTranspose(aux_energy) ELSE aux_energy
    /\ UNCHANGED << args, caller_energy_map, energy_map, local_energy_map, num_seams,
                    delta_width, stage, result, work, last, touched, probe >>

\* carve.py:457-462 and 660-663: the target size
Size ==
    /\ pc = "size"
    /\ IF size = None
       THEN Finish("ok")
       ELSE IF Get(size)[1] <= 0 \/ Get(size)[2] <= 0
       THEN Finish("ValueError: size")
       ELSE pc' = "axis" /\ UNCHANGED result
    /\ UNCHANGED << args, caller_energy_map, locals, probe >>

Advance ==
    /\ stage' = stage + 1
    /\ pc' = IF stage = 2 THEN "done" ELSE "axis"
    /\ result' = IF stage = 2 THEN "ok" ELSE ""

\* One axis of carve.py:464-477 or 664-669: _resize_width (312-330),
\* _resize_height (342-366), _carve_along_width (634-649) or
\* _carve_along_height (650-659).  A reduction is done here; an expansion is
\* begun here and done round by round.
AxisStep ==
    /\ pc = "axis"
    /\ \E buf \in {IF Axis = "height" THEN Transpose(src) ELSE src} :
       \E org \in {IF Axis = "height" THEN Transpose(origin) ELSE origin} :
       \E aux \in {IF Axis = "height" THEN OptTranspose(aux_energy) ELSE aux_energy} :
       \E map \in {IF Axis = "height" THEN OptTranspose(PassedMap) ELSE PassedMap} :
       LET high == Axis = "height"
           target == IF high THEN Get(size)[2] ELSE Get(size)[1]
           delta == Delta(buf.w, target)
       IN  IF Advanced /\ delta = 0
           THEN Advance
                /\ UNCHANGED << args, caller_energy_map, src, origin, aux_energy,
                                energy_map, local_energy_map, num_seams, delta_width,
                                work, last, touched, probe >>
           ELSE IF ~Advanced /\ ~high /\ src.h * src.w = 0
           THEN Finish("AssertionError")
                /\ UNCHANGED << args, caller_energy_map, locals, probe >>
           ELSE IF (~high /\ buf.w < target) \/ (high /\ ~(buf.w > target))
           THEN /\ pc' = "expand"
                /\ src' = buf
                /\ origin' = org
                /\ aux_energy' = aux
                /\ local_energy_map' = map
                /\ delta_width' = target - buf.w
                /\ UNCHANGED << args, caller_energy_map, energy_map, num_seams, stage,
                                result, work, last, touched, probe >>
           ELSE \E r \in {_reduce_width(buf, delta, energy_mode, aux, map,
                                        PassedRecompute)} :
                /\ last' = Request("reduce", buf, aux, map, delta, r)
                /\ work' = work \cup Worked(map, r.err)
                /\ IF r.err # ""
                   THEN Finish(r.err)
                        /\ UNCHANGED << args, caller_energy_map, src, origin, aux_energy,
                                        energy_map, local_energy_map, num_seams,
                                        delta_width, stage, touched, probe >>
                   ELSE /\ Advance
                        /\ src' = IF high THEN Transpose(r.dst) ELSE r.dst
                        /\ origin' = LET o == Compact(org, Not(r.seams), r.dst.w)
                                     IN  IF high THEN Transpose(o) ELSE o
                        /\ aux_energy' = IF high THEN OptTranspose(r.aux_energy)
                                         ELSE r.aux_energy
                        /\ IF Advanced
                           THEN WriteMap(IF high THEN OptTranspose(r.energy_map)
                                         ELSE r.energy_map)
                           ELSE UNCHANGED << energy_map, caller_energy_map >>
                        /\ touched' = touched + delta
                        /\ UNCHANGED << args, local_energy_map, num_seams, delta_width,
                                        probe >>

\* what a read outside the seam mask (the numba kernel checks no bounds) can
\* end in
Undefined == {"undefined: crash", "undefined: garbage"}

\* carve.py:296-308: one round of the expansion loop
ExpandRound ==
    /\ pc = "expand"
    /\ delta_width # 0
    /\ \E e \in {ExpandStep(src, delta_width, energy_mode, aux_energy, step_ratio,
                            local_energy_map, PassedRecompute)} :
           /\ last' = Request("expand", src, aux_energy, local_energy_map,
                            Min(MaxStep(step_ratio, src.w), delta_width), e)
           /\ work' = work \cup Worked(local_energy_map, e.err)
           /\ IF e.err # ""
              THEN /\ pc' = "done"
                   /\ IF e.err = "undefined" THEN result' \in Undefined
                      ELSE result' = e.err
                   /\ UNCHANGED << args, caller_energy_map, src, origin, aux_energy,
                                   energy_map, local_energy_map, num_seams, delta_width,
                                   stage, touched, probe >>
              ELSE /\ src' = e.dst
                   /\ origin' = InsertOrigin(origin, e.seams, e.step)
                   /\ aux_energy' = e.aux_energy
                   /\ local_energy_map' = e.energy_map
                   /\ delta_width' = delta_width - e.step
                   /\ touched' = touched + e.step
                   /\ UNCHANGED << args, caller_energy_map, pc, energy_map, num_seams,
                                   stage, result, probe >>

\* carve.py:309 and 361-366: the expansion is over
ExpandDone ==
    /\ pc = "expand"
    /\ delta_width = 0
    /\ Advance
    /\ LET high == Axis = "height"
       IN  /\ src' = IF high THEN Transpose(src) ELSE src
           /\ origin' = IF high THEN Transpose(origin) ELSE origin
           /\ aux_energy' = IF high THEN OptTranspose(aux_energy) ELSE aux_energy
    /\ local_energy_map' = None
    /\ UNCHANGED << args, caller_energy_map, energy_map, num_seams, delta_width, work,
                    last, touched, probe >>

(* ------------------------ one seam search ----------------------------- *)
\* probe = [fn, buf, aux_energy, seam]: buf is the energy map of a backward
\* search (with aux_energy added to it, as in carve.py:93-95) and the gray
\* buffer of a forward search
SearchBackward ==
    /\ pc = "start"
    /\ api = "seam"
    /\ pc' = "done"
    /\ probe' = [probe EXCEPT
                    !.fn = "backward",
                    !.seam = _get_backward_seam(
                                 IF probe.aux_energy = None THEN probe.buf
                                 ELSE MatAdd(probe.buf, Get(probe.aux_energy)))]
    /\ UNCHANGED << args, caller_energy_map, locals, result >>

SearchForward ==
    /\ pc = "start"
    /\ api = "seam"
    /\ pc' = "done"
    /\ probe' = [probe EXCEPT
                    !.fn = "forward",
                    !.seam = _get_forward_seam(probe.buf, probe.aux_energy)]
    /\ UNCHANGED << args, caller_energy_map, locals, result >>

(* --------------------------- the inputs ------------------------------- *)
Positions(h, w) == (0..(h - 1)) \X (0..(w - 1))
AtMost(h, w, n) == {B \in SUBSET Positions(h, w) : Cardinality(B) <= n}
Picture(h, w, B, lo, hi) ==
    Mat(h, w, [r \in Ix(h) |-> [c \in Ix(w) |-> IF <<r, c>> \in B THEN hi ELSE lo]])
\* black images with at most MaxBright white pixels
Images(h, w) == {Picture(h, w, B, 0, 255) : B \in AtMost(h, w, MaxBright)}
\* masks with at most MaxMarked marked pixels
Masks(h, w) == {Picture(h, w, B, FALSE, TRUE) : B \in AtMost(h, w, MaxMarked)}
\* energy maps with at most MaxBright high entries
EnergyMaps(h, w) == {Picture(h, w, B, 0, 5) : B \in AtMost(h, w, MaxBright)}
Sizes == {Some(<<W, H>>) : W \in 1..MaxSize, H \in 1..MaxSize}
StepRatios == {<<1, 2>>, <<1, 1>>}
Channels == {0, 3, 4}

NoProbe == [fn |-> "", buf |-> Zeros(0, 0), aux_energy |-> None, seam |-> <<>>]

\* the state in which a call begins
Begin ==
    /\ before = [image |-> image, keep_mask |-> keep_mask, drop_mask |-> drop_mask,
                 energy_map |-> caller_energy_map]
    /\ pc = "start"
    /\ src = image
    /\ origin = Origin(image.h, image.w)
    /\ aux_energy = None
    /\ energy_map = None
    /\ local_energy_map = None
    /\ num_seams = 0
    /\ delta_width = 0
    /\ stage = 1
    /\ result = ""
    /\ work = {}
    /\ last = NoRequest
    /\ touched = 0

Plain ==
    /\ recompute_energy = TRUE
    /\ energy_threshold = None
    /\ caller_energy_map = None
    /\ probe = NoProbe

\* resize(image, size=(W, H)), no masks
InitSize ==
    /\ api = "resize"
    /\ channels \in Channels
    /\ \E h \in 1..MaxH, w \in 1..MaxW : image \in Images(h, w)
    /\ size \in Sizes
    /\ energy_mode \in EnergyMode
    /\ order \in OrderMode
    /\ keep_mask = None
    /\ drop_mask = None
    /\ step_ratio \in StepRatios
    /\ Plain
    /\ Begin

NextSize == Enter \/ DropMask \/ Size \/ AxisStep \/ ExpandRound \/ ExpandDone

Spec == InitSize /\ [][NextSize]_vars

(* ------------------------------ C1 ------------------------------------ *)
Shaped == result = "ok" /\ src.w = Get(size)[1] /\ src.h = Get(size)[2]

\* C1 as stated: for every 2-D or 3-D image, whatever its number of
\* channels, resize(image, size=(W, H)) returns H rows and W columns
C1_EveryImage == pc = "done" => Shaped

\* C1: for every 2-D image and every 3-D image of three channels, every size
\* (W, H) with W, H >= 1, both energy modes, both orders and every step
\* ratio, resize(image, size=(W, H)) returns normally with exactly H rows and
\* W columns
C1_OutputShape == pc = "done" /\ channels \in {0, 3} => Shaped

\* a three-channel image narrowed and heightened at once
C1_Witness ==
    /\ pc = "done"
    /\ channels = 3
    /\ Shaped
    /\ src.w < image.w
    /\ src.h > image.h

(* ------------------------------ C4 ------------------------------------ *)
\* C4: every round of an expansion inserts at most step_ratio times the
\* width the buffer has when the round starts
C4_RoundWithinRatio ==
    last.op = "expand" => last.num_seams * step_ratio[2] <= step_ratio[1] * last.gray.w

(* ------------------------------ C8 ------------------------------------ *)
SameSize == size = Some(<<image.w, image.h>>)
Untouched == result = "ok" /\ src = image /\ touched = 0

\* C8 as stated: resize to the size the image has returns the image, no seam
\* removed or inserted, whatever the image
C8_EveryImage == pc = "done" /\ SameSize => Untouched

\* C8: resize of a 2-D image or of a 3-D image of three channels to the size
\* it has returns it pixel for pixel, and no seam is removed or inserted on
\* either axis, for both energy modes and both orders
C8_Identity == pc = "done" /\ SameSize /\ channels \in {0, 3} => Untouched

\* a 2x2 image with a white pixel, forward mode, height first, returned as is
C8_Witness ==
    /\ pc = "done"
    /\ SameSize
    /\ Untouched
    /\ channels = 3
    /\ image.h = 2 /\ image.w = 2
    /\ image.d[0][1] = 255
    /\ energy_mode = "forward"
    /\ order = "height-first"

(* ------------------------------ C5 ------------------------------------ *)
\* resize(image, size=(W, H), keep_mask=mask)
InitKeep ==
    /\ api = "resize"
    /\ channels = 3
    /\ \E h \in 1..MaxH, w \in 1..MaxW :
          /\ image \in Images(h, w)
          /\ keep_mask \in {Some(m) : m \in Masks(h, w)}
    /\ size \in Sizes
    /\ energy_mode \in EnergyMode
    /\ order \in OrderMode
    /\ drop_mask = None
    /\ step_ratio = <<1, 2>>
    /\ Plain
    /\ Begin

NextKeep == Enter \/ DropMask \/ Size \/ AxisStep \/ ExpandRound \/ ExpandDone

SpecKeep == InitKeep /\ [][NextKeep]_vars

\* the connected top-to-bottom paths of an h x w buffer
Paths(h, w) ==
    {p \in [0..(h - 1) -> 0..(w - 1)] : \A r \in 1..(h - 1) : Abs(p[r] - p[r - 1]) <= 1}
Protected(aux, r, c) == Get(aux).d[r][c] > 0

\* C5: a seam removed under a keep mask holds no protected pixel as long as
\* the buffer it is searched in has a connected top-to-bottom path of
\* unprotected pixels
C5_KeepMaskAvoided ==
    /\ last.op = "reduce"
    /\ last.num_seams = 1
    /\ last.aux_energy # None
    /\ SameShape(last.seams, last.gray)
    /\ \E p \in Paths(last.gray.h, last.gray.w) :
          \A r \in 0..(last.gray.h - 1) : ~Protected(last.aux_energy, r, p[r])
    => \A r \in 0..(last.gray.h - 1), c \in 0..(last.gray.w - 1) :
          last.seams.d[r][c] => ~Protected(last.aux_energy, r, c)

(* ------------------------------ C9 ------------------------------------ *)
Bases == {0, 100}
\* uniform but for one full-height column of brighter (white) pixels
Lined(h, w, b, base) == Mat(h, w, [r \in Ix(h) |-> [c \in Ix(w) |-> IF c = b THEN 255 ELSE base]])
IsBright(v) == v \notin Bases

\* resize(image, size=(W, h)) with W < w, backward mode
InitBright ==
    /\ api = "resize"
    /\ channels \in {0, 3}
    /\ \E h \in 1..MaxH, w \in 2..MaxWide :
          /\ image \in {Lined(h, w, b, base) : b \in 0..(w - 1), base \in Bases}
          /\ size \in {Some(<<W, h>>) : W \in 1..(w - 1)}
    /\ energy_mode = "backward"
    /\ order \in OrderMode
    /\ keep_mask = None
    /\ drop_mask = None
    /\ step_ratio = <<1, 2>>
    /\ Plain
    /\ Begin

NextBright == Enter \/ DropMask \/ Size \/ AxisStep \/ ExpandDone

SpecBright == InitBright /\ [][NextBright]_vars

\* the passes of the loop of _get_backward_seams: the state each pass starts
\* from and the seam it takes out
RECURSIVE BackwardTrace(_, _)
BackwardTrace(s, n) ==
    IF n = 0 THEN <<>>
    ELSE With([t \in {BackwardStep(s)} |->
              <<[gray |-> s.gray, seam |-> _get_backward_seam(s.energy)]>>
              \o BackwardTrace(t, n - 1)])

Removals ==
    IF last.op = "reduce" THEN BackwardTrace(BackwardStart(last.gray, None), last.num_seams)
    ELSE <<>>

PathEnergy(energy, p) ==
    LET S[r \in 0..energy.h] == IF r = 0 THEN 0 ELSE S[r - 1] + energy.d[r - 1][p[r - 1]]
    IN  S[energy.h]
Crosses(gray, p) == \E r \in 0..(gray.h - 1) : IsBright(gray.d[r][p[r]])
Avoiding(gray) == {p \in Paths(gray.h, gray.w) : ~Crosses(gray, p)}
LowerAvoiding(gray, seam) ==
    With([energy \in {_get_energy(gray)} |->
         {p \in Avoiding(gray) : PathEnergy(energy, p) < PathEnergy(energy, seam)}])

Biases(h, w) ==
    {None} \cup {Some(Bias(Zeros(h, w), m, e)) :
                    m \in Masks(h, w), e \in {KEEP_MASK_ENERGY, -DROP_MASK_ENERGY}}

\* one search of one seam in an h x w buffer
InitSeam ==
    /\ api = "seam"
    /\ channels = 0
    /\ \E h \in 1..MaxH, w \in 1..MaxWide :
          /\ image \in Images(h, w)
          /\ \E aux \in Biases(h, w) :
                probe = [fn |-> "", buf |-> image, aux_energy |-> aux, seam |-> <<>>]
    /\ size = None
    /\ energy_mode = "backward"
    /\ order = "width-first"
    /\ keep_mask = None
    /\ drop_mask = None
    /\ step_ratio = <<1, 2>>
    /\ recompute_energy = TRUE
    /\ energy_threshold = None
    /\ caller_energy_map = None
    /\ Begin

NextSeam == SearchBackward \/ SearchForward

SpecSeam == InitSeam /\ [][NextSeam]_vars

\* C10: the seam the backward search and the forward search return for an
\* h x w buffer has one column index for each row, every index is in
\* 0..w-1, and the indices of adjacent rows differ by at most 1
C10_SeamValid ==
    probe.fn # "" =>
        /\ DOMAIN probe.seam = 0..(probe.buf.h - 1)
        /\ \A r \in 0..(probe.buf.h - 1) : probe.seam[r] \in 0..(probe.buf.w - 1)
        /\ \A r \in 1..(probe.buf.h - 1) : Abs(probe.seam[r] - probe.seam[r - 1]) <= 1

\* a forward search under a drop bias, in two rows of three columns, whose
\* seam changes column
C10_Witness ==
    /\ probe.fn = "forward"
    /\ probe.buf.h = 2 /\ probe.buf.w = 3
    /\ probe.aux_energy # None
    /\ \E r \in 0..1, c \in 0..2 : Get(probe.aux_energy).d[r][c] < 0
    /\ probe.seam[0] # probe.seam[1]

(* ------------------------------ C2 ------------------------------------ *)
\* resize(image, drop_mask=mask), no size, on a grayscale or RGB image
InitDrop ==
    /\ api = "resize"
    /\ channels \in {0, 3}
    /\ \E h \in 1..MaxH, w \in 1..MaxW :
          /\ image \in Images(h, w)
          /\ drop_mask \in {Some(m) : m \in Masks(h, w)}
    /\ size = None
    /\ energy_mode \in EnergyMode
    /\ order \in OrderMode
    /\ keep_mask = None
    /\ step_ratio = <<1, 2>>
    /\ Plain
    /\ Begin

NextDrop == Enter \/ DropMask \/ EraseRound \/ EraseDone \/ Size

\* the interpreter runs the call on: a step that can be taken is taken
SpecDrop == InitDrop /\ [][NextDrop]_vars /\ WF_vars(NextDrop)

Marked(mask, o) == o # Synthesized /\ Get(mask).d[o[1]][o[2]]
NoMarkedLeft ==
    \A r \in 0..(src.h - 1), c \in 0..(src.w - 1) : ~Marked(drop_mask, origin.d[r][c])

\* C2: resize with a drop mask and no size returns (the removal loop
\* terminates), and the image it returns holds no pixel the mask marks, for
\* both energy modes and both orders
C2_DropMaskRemoved ==
    /\ [](pc = "done" => result = "ok" /\ NoMarkedLeft)
    /\ <>(pc = "done")

\* a forward-mode call that has returned, whose mask marks a pixel of the
\* first row of a buffer of two rows, after a round that took out only a part
\* of what is marked
C2_Witness ==
    /\ pc = "done"
    /\ result = "ok"
    /\ energy_mode = "forward"
    /\ order = "width-first"
    /\ image.h = 2
    /\ \E c \in 0..(image.w - 1) : Get(drop_mask).d[0][c]
    /\ touched > last.num_seams
    /\ last.num_seams > 0
    /\ NoMarkedLeft

(* --------------------------- C3, C6, C7 ------------------------------- *)
\* pruning that leaves no row or no column is left out: what follows it is a
\* search in an empty buffer
Prunes(img, map, thr) ==
    IF thr = None THEN TRUE
    ELSE \E kept \in {_prune_low_energy(img, IF map = None THEN _get_energy(img)
                                            ELSE Get(map), Get(thr))} :
             kept.h > 0 /\ kept.w > 0

\* resize_advanced(image, size, energy_mode, order, drop_mask=..., energy_map=...,
\* recompute_energy=..., energy_threshold=...)
InitAdv ==
    /\ api = "resize_advanced"
    /\ channels = 3
    /\ \E h \in 1..MaxH, w \in 1..MaxW :
          /\ image \in Images(h, w)
          /\ drop_mask \in {None} \cup {Some(m) : m \in Masks(h, w)}
          /\ caller_energy_map \in {None} \cup {Some(m) : m \in EnergyMaps(h, w)}
    /\ size \in {None} \cup Sizes
    /\ energy_mode \in EnergyMode
    /\ order \in OrderMode
    /\ keep_mask = None
    /\ step_ratio = <<1, 2>>
    /\ recompute_energy \in BOOLEAN
    /\ energy_threshold \in {None, Some(1)}
    /\ Prunes(image, caller_energy_map, energy_threshold)
    /\ probe = NoProbe
    /\ Begin

NextAdv ==
    \/ Enter \/ DropMask \/ EraseRound \/ EraseDone
    \/ Size \/ AxisStep \/ ExpandRound \/ ExpandDone

SpecAdv == InitAdv /\ [][NextAdv]_vars

\* C3: every call of resize_advanced with the forward mode and
\* recompute_energy = false ends in the configuration error, and nothing has
\* been pruned, no energy computed and no seam searched or removed by then
C3_ForwardStaticRejected ==
    pc = "done" /\ energy_mode = "forward" /\ ~recompute_energy
        => result = "ValueError: forward" /\ work = {} /\ touched = 0

StepStarts ==
    \/ pc = "axis"
    \/ pc = "erase" /\ num_seams > 0
    \/ pc = "expand" /\ delta_width # 0
\* the energy map the step at hand has in scope, turned as the image is
MapInScope ==
    IF pc = "expand" THEN local_energy_map
    ELSE IF pc = "erase" /\ order = "height-first" THEN OptTranspose(energy_map)
    ELSE energy_map
ShapeErrors == {"IndexError: boolean index", "ValueError: broadcast"} \cup Undefined

\* C6: when a width step, a height step, an expansion round or a drop-mask
\* round starts, the auxiliary energy and the user's energy map have the
\* height and width of the image, and no step ends in a shape mismatch
C6_SideBuffersInStep ==
    /\ StepStarts =>
          /\ aux_energy # None => SameShape(Get(aux_energy), src)
          /\ MapInScope # None => SameShape(Get(MapInScope), src)
    /\ result \notin ShapeErrors

\* C7: when a call is over, the caller's image, masks and energy map hold
\* what they held before it
C7_CallerBuffersUnchanged ==
    pc = "done" =>
        before = [image |-> image, keep_mask |-> keep_mask, drop_mask |-> drop_mask,
                  energy_map |-> caller_energy_map]

(* ------------------------------ C11 ----------------------------------- *)
\* the tallest energy map a single search is run on
MaxTall == 3

\* energy maps of two superposed layers: at most MaxMarked entries raised by
\* 1 and the entries of one column (of none for b = -1) raised by 2
Ridge(h, w, b) == Mat(h, w, [r \in Ix(h) |-> [c \in Ix(w) |-> IF c = b THEN 2 ELSE 0]])
Terrain(h, w) ==
    {MatAdd(Picture(h, w, B, 0, 1), Ridge(h, w, b)) :
        B \in AtMost(h, w, MaxMarked), b \in -1..(w - 1)}

\* _get_backward_seam(energy) on an h x w energy map
InitPath ==
    /\ api = "seam"
    /\ channels = 0
    /\ \E h \in 1..MaxTall, w \in 1..MaxWide :
          /\ image \in Terrain(h, w)
          /\ probe = [fn |-> "", buf |-> image, aux_energy |-> None, seam |-> <<>>]
    /\ size = None
    /\ energy_mode = "backward"
    /\ order = "width-first"
    /\ keep_mask = None
    /\ drop_mask = None
    /\ step_ratio = <<1, 2>>
    /\ recompute_energy = TRUE
    /\ energy_threshold = None
    /\ caller_energy_map = None
    /\ Begin

NextPath == SearchBackward

SpecPath == InitPath /\ [][NextPath]_vars

\* the energy map a backward search is run on
Searched ==
    IF probe.aux_energy = None THEN probe.buf
    ELSE MatAdd(probe.buf, Get(probe.aux_energy))

\* rows 0..r of an energy map
Upto(energy, r) == Mat(r + 1, energy.w, [i \in Ix(r + 1) |-> energy.d[i]])

\* the least total energy of a connected path from row 0 to column c of row
\* r: every such path is the upper part of one of the top-to-bottom paths
Accumulated(energy, paths, r, c) ==
    With([top \in {Upto(energy, r)} |->
         MinOf({PathEnergy(top, p) : p \in {q \in paths : q[r] = c}})])

\* the columns of S of least accumulated energy in row r
Cheapest(energy, paths, r, S) ==
    With([acc \in {[c \in S |-> Accumulated(energy, paths, r, c)]} |->
         {c \in S : \A x \in S : acc[c] <= acc[x]}])

Near(c, w) == {x \in (c - 1)..(c + 1) : 0 <= x /\ x <= w - 1}

\* C11: the seam of the backward search is of the least total energy of all
\* connected top-to-bottom seams; its bottom end is the leftmost column of
\* least accumulated cost, and in every row above it is the leftmost of the
\* (up to three) neighbouring columns of least accumulated cost
C11_MinimalLeftmost ==
    probe.fn = "backward" =>
        \E energy \in {Searched} :
        \E paths \in {Paths(energy.h, energy.w)} :
            /\ \A p \in paths : PathEnergy(energy, probe.seam) <= PathEnergy(energy, p)
            /\ probe.seam[energy.h - 1]
                  = MinOf(Cheapest(energy, paths, energy.h - 1, 0..(energy.w - 1)))
            /\ \A r \in 1..(energy.h - 1) :
                  probe.seam[r - 1]
                      = MinOf(Cheapest(energy, paths, r - 1, Near(probe.seam[r], energy.w)))

\* three rows of three columns: the seam changes column, because the straight
\* way down to its bottom end costs more; a seam that ends right of it costs
\* the same
C11_Witness ==
    /\ probe.fn = "backward"
    /\ probe.buf.h = 3 /\ probe.buf.w = 3
    /\ probe.seam[0] # probe.seam[1]
    /\ PathEnergy(Searched, [r \in 0..2 |-> probe.seam[2]]) > PathEnergy(Searched, probe.seam)
    /\ \E p \in Paths(3, 3) :
          /\ p[2] > probe.seam[2]
          /\ PathEnergy(Searched, p) = PathEnergy(Searched, probe.seam)

(* ------------------------------ C12 ----------------------------------- *)
\* the widest buffer a batch of seams is extracted from
MaxSpan == 5

\* black buffers with no or one white pixel
Spots(h, w) == {Zeros(h, w)} \cup {Picture(h, w, {pos}, 0, 255) : pos \in Positions(h, w)}

\* no bias, or the keep or the drop bias on one pixel
SpotBiases(h, w) ==
    {None} \cup {Some(Bias(Zeros(h, w), Picture(h, w, {pos}, FALSE, TRUE), e)) :
                    pos \in Positions(h, w), e \in {KEEP_MASK_ENERGY, -DROP_MASK_ENERGY}}

\* _get_backward_seams(gray, num_seams, aux_energy) on an h x w buffer
ExtractBackward ==
    /\ pc = "start"
    /\ api = "seams"
    /\ pc' = "done"
    /\ \E k \in 1..(probe.buf.w - 1) :
       \E seams \in {_get_backward_seams(probe.buf, k, probe.aux_energy)} :
           last' = Request("seams", probe.buf, probe.aux_energy, None, k,
                           [err |-> "", seams |-> seams])
    /\ UNCHANGED << args, caller_energy_map, src, origin, aux_energy, energy_map,
                    local_energy_map, num_seams, delta_width, stage, work, touched,
                    result, probe >>

InitBatch ==
    /\ api = "seams"
    /\ channels = 0
    /\ \E h \in 1..MaxTall, w \in 2..MaxSpan :
          /\ image \in Spots(h, w)
          /\ \E aux \in SpotBiases(h, w) :
                probe = [fn |-> "", buf |-> image, aux_energy |-> aux, seam |-> <<>>]
    /\ size = None
    /\ energy_mode = "backward"
    /\ order = "width-first"
    /\ keep_mask = None
    /\ drop_mask = None
    /\ step_ratio = <<1, 2>>
    /\ recompute_energy = TRUE
    /\ energy_threshold = None
    /\ caller_energy_map = None
    /\ Begin

NextBatch == ExtractBackward

SpecBatch == InitBatch /\ [][NextBatch]_vars

\* the energy of a whole buffer, computed from scratch
Recomputed(gray, aux) ==
    IF aux = None THEN _get_energy(gray) ELSE MatAdd(_get_energy(gray), Get(aux))

\* one seam taken out of s = [gray, idx_map, aux_energy, seams], searched in
\* the energy of the whole of s.gray
ScratchStep(s) ==
    With([seam \in {_get_backward_seam(Recomputed(s.gray, s.aux_energy))} |->
    With([seam_mask \in {_get_seam_mask(s.gray, seam)} |->
         [gray |-> _remove_seam_mask(s.gray, seam_mask),
          idx_map |-> _remove_seam_mask(s.idx_map, seam_mask),
          aux_energy |-> OptRemove(s.aux_energy, seam_mask),
          seams |-> MarkSeam(s.seams, s.idx_map, seam)]])])

RECURSIVE ScratchLoop(_, _)
ScratchLoop(s, n) ==
    IF n = 0 THEN s ELSE With([t \in {ScratchStep(s)} |-> ScratchLoop(t, n - 1)])

\* the selection mask of K seams taken out one at a time
OneAtATime(gray, K, aux) ==
    With([s \in {[gray |-> gray, idx_map |-> IdxMap(gray.h, gray.w),
          aux_energy |-> aux, seams |-> NoSeams(gray.h, gray.w)]} |->
         ScratchLoop(s, K).seams])

\* C12: the selection mask of K seams (1 <= K < width) of the backward model
\* with the energy updated in the window around each seam is the mask of K
\* seams taken out one at a time with the energy of the whole shrunken buffer
\* computed from scratch, so both carve the same image, with and without
\* auxiliary energy
C12_WindowIsExact ==
    last.op = "seams" =>
        last.seams = OneAtATime(last.gray, last.num_seams, last.aux_energy)

\* a batch under a bias in which one seam leaves old energy in use on both of
\* its sides and another one is not straight and touches the last column
C12_Witness ==
    /\ last.op = "seams"
    /\ last.num_seams >= 2
    /\ last.aux_energy # None
    /\ \E trace \in {BackwardTrace(BackwardStart(last.gray, last.aux_energy),
                                   last.num_seams)} :
          /\ \E i \in DOMAIN trace :
                /\ MinOf(SeamCols(trace[i].seam)) >= 2
                /\ MaxOf(SeamCols(trace[i].seam)) <= trace[i].gray.w - 3
          /\ \E i \in DOMAIN trace :
                /\ trace[i].gray.w - 1 \in SeamCols(trace[i].seam)
                /\ Cardinality(SeamCols(trace[i].seam)) > 1

(* ------------------------------ C13 ----------------------------------- *)
\* C13: every batch extraction that a call requests, in a reduction, in a
\* round of an expansion or in a round of the drop-mask loop, asks for fewer
\* seams than the buffer it is run on has columns
C13_FewerThanWidth == last.op # "none" => last.num_seams < last.gray.w

(* ------------------------------ C14 ----------------------------------- *)
\* float32 holds every whole number below 2^24 exactly
Mantissa == 16777216

\* the spacing of float32 at a whole number a >= 0
RECURSIVE Ulp(_)
Ulp(a) == IF a < Mantissa THEN 1 ELSE 2 * Ulp(a \div 2)

\* astype(np.float32) of a whole number: the nearest float32, ties to the even
\* mantissa
AsFloat32(x) ==
    LET a == Abs(x)
        u == Ulp(a)
        q == a \div u
        rem == a % u
        m == IF 2 * rem > u \/ (2 * rem = u /\ q % 2 = 1) THEN (q + 1) * u ELSE q * u
    IN  IF x < 0 THEN -m ELSE m

\* the sample types: their largest sample in the buffers below, and whether
\* they hold fractions
SampleTypes == {"uint8", "int32", "float32"}
Brightest(dtype) == IF dtype = "int32" THEN Mantissa + 1 ELSE 255
Fractional(dtype) == dtype = "float32"

\* The kernel of lines 254-270 on the float32 buffer dst, counted in halves:
\* a synthesized sample is (left + right) / 2, the sum rounded to float32 and
\* the division by two exact; an old sample is copied
_insert_seams_kernel(dst, seams, delta_width_) ==
    With([plan \in {InsertPlan(seams, dst.w)} |->
         Mat(dst.h, dst.w + delta_width_,
             [r \in Ix(dst.h) |-> [c \in Ix(dst.w + delta_width_) |->
                 LET new == plan[r][c + 1][1]
                     src_col == plan[r][c + 1][2]
                     right == dst.d[r][src_col]
                     left == dst.d[r][Max(src_col - 1, 0)]
                 IN  IF new THEN AsFloat32(left + right) ELSE 2 * right]])])

\* astype(src.dtype) of a float32 sample given in halves, in halves again: an
\* integer type drops the fraction (toward zero)
AsType(halves, dtype) ==
    IF Fractional(dtype) THEN halves
    ELSE IF halves >= 0 THEN 2 * (halves \div 2)
    ELSE -2 * ((-halves) \div 2)

\* lines 275-281, for a buffer of whole samples of the type dtype: the result
\* is counted in halves
InsertSeams(src_, seams, delta_width_, dtype) ==
    With([dst \in {Mat(src_.h, src_.w, [r \in Ix(src_.h) |-> [c \in Ix(src_.w) |->
                       AsFloat32(src_.d[r][c])]])} |->
    With([out \in {_insert_seams_kernel(dst, seams, delta_width_)} |->
         Mat(out.h, out.w, [r \in Ix(out.h) |-> [c \in Ix(out.w) |->
                 AsType(out.d[r][c], dtype)]])])])

\* the selection masks of an h x w buffer with K marks in every row
RowMarks(h, w, K) ==
    {Mat(h, w, [r \in Ix(h) |-> [c \in Ix(w) |-> c \in m[r]]]) :
        m \in [Ix(h) -> {S \in SUBSET Ix(w) : Cardinality(S) = K}]}

\* _insert_seams(src, seams, delta_width): probe.buf is src, probe.dtype its
\* sample type
InsertMarked ==
    /\ pc = "start"
    /\ api = "insert"
    /\ pc' = "done"
    /\ \E K \in 1..probe.buf.w :
       \E seams \in RowMarks(probe.buf.h, probe.buf.w, K) :
           probe' = [fn |-> "_insert_seams", buf |-> probe.buf,
                     aux_energy |-> None, seam |-> <<>>, dtype |-> probe.dtype,
                     delta_width |-> K, seams |-> seams,
                     dst |-> InsertSeams(probe.buf, seams, K, probe.dtype)]
    /\ UNCHANGED << args, caller_energy_map, locals, result >>

\* black buffers of every sample type with no or one pixel of the type's
\* largest sample
InitInsert ==
    /\ api = "insert"
    /\ channels = 0
    /\ \E h \in 1..MaxH, w \in 1..MaxWide, dtype \in SampleTypes :
          /\ image \in {Zeros(h, w)}
                       \cup {Picture(h, w, {pos}, 0, Brightest(dtype)) :
                                pos \in Positions(h, w)}
          /\ probe = [fn |-> "", buf |-> image, aux_energy |-> None, seam |-> <<>>,
                      dtype |-> dtype, delta_width |-> 0, seams |-> NoSeams(h, w),
                      dst |-> Zeros(0, 0)]
    /\ size = None
    /\ energy_mode = "backward"
    /\ order = "width-first"
    /\ keep_mask = None
    /\ drop_mask = None
    /\ step_ratio = <<1, 2>>
    /\ recompute_energy = TRUE
    /\ energy_threshold = None
    /\ caller_energy_map = None
    /\ Begin

NextInsert == InsertMarked

SpecInsert == InitInsert /\ [][NextInsert]_vars

\* where the sample of column c of a row with the marks row is written to: it
\* is shifted by one for every mark at or left of it
Shifted(marks, c) == c + Cardinality({x \in 0..c : marks[x]})

\* C14: inserting with a mask of K marks in each row of an h x w buffer gives
\* an h x (w + K) buffer in which every original sample is unchanged and in
\* its original order, and right before every marked sample stands a new one
\* that is the arithmetic mean of the marked sample and its left neighbour
\* in the original row (of the marked sample and itself in column 0), for
\* integer and float sample types.  The result is counted in halves.
C14_MeanInserted ==
    probe.fn = "_insert_seams" =>
        /\ probe.dst.h = probe.buf.h
        /\ probe.dst.w = probe.buf.w + probe.delta_width
        /\ \A r \in Ix(probe.buf.h), c \in Ix(probe.buf.w) :
              /\ probe.dst.d[r][Shifted(probe.seams.d[r], c)] = 2 * probe.buf.d[r][c]
              /\ probe.seams.d[r][c] =>
                    probe.dst.d[r][Shifted(probe.seams.d[r], c) - 1]
                        = probe.buf.d[r][Max(c - 1, 0)] + probe.buf.d[r][c]

(* ------------------------------ C15 ----------------------------------- *)
\* the sample at column c of row r, the row continued by its first and last
\* sample
Replicated(gray, r, c) == gray.d[r][Min(Max(c, 0), gray.w - 1)]

\* the cost of the pixel of row r on the path p, as C15 states it: the
\* difference of its neighbours plus its bias, plus the difference of the
\* sample above and the right neighbour after a step from the left, of the
\* sample above and the left neighbour after a step from the right
StatedCost(gray, aux, p, r) ==
    LET c == p[r]
        left == Replicated(gray, r, c - 1)
        right == Replicated(gray, r, c + 1)
        above == gray.d[r - 1][c]
    IN  Abs(right - left)
        + (IF aux = None THEN 0 ELSE Get(aux).d[r][c])
        + (IF r = 0 \/ p[r - 1] = c THEN 0
           ELSE IF p[r - 1] = c - 1 THEN Abs(above - right)
           ELSE Abs(above - left))

StatedTotal(gray, aux, p) ==
    LET S[r \in 0..gray.h] == IF r = 0 THEN 0 ELSE S[r - 1] + StatedCost(gray, aux, p, r - 1)
    IN  S[gray.h]

\* C15: no connected top-to-bottom path costs less than the seam of the
\* forward search, the cost of a path being the sum over its rows (the first
\* one included) of |right neighbour - left neighbour| plus the bias, plus
\* |above - right neighbour| after a step from the left and |above - left
\* neighbour| after a step from the right
C15_ForwardMinimal ==
    probe.fn = "forward" =>
        \A p \in Paths(probe.buf.h, probe.buf.w) :
            StatedTotal(probe.buf, probe.aux_energy, probe.seam)
                <= StatedTotal(probe.buf, probe.aux_energy, p)

====
